---- MODULE Spec2Model ----
(***************************************************************************)
(* Model of the SOL trackers of the repository.  The source holds four     *)
(* versions of server.js, each a program of its own:                       *)
(*   "smart"  src/unnamed/part_000, lines 343-771: the single-flight scan  *)
(*            coordinator smartAnalysis, the incremental scan, the         *)
(*            retrying RPC helper with its daily call budget, and the JSON *)
(*            file that holds the checkpoint;                              *)
(*   "comp"   src/unnamed/part_000, lines 1-341: the comprehensive         *)
(*            analysis (signature pagination, then batched fetches);       *)
(*   "gross"  src/server.js, lines 1-103: the gross-inbound sum over the   *)
(*            enhanced transaction API;                                    *)
(*   "v0"     src/server.js, lines 105-274: the lifetime counter with      *)
(*            loaded-address support.                                      *)
(* A behaviour is a behaviour of one of them (variable program); the       *)
(* variables of the others stay as they start.                             *)
(*                                                                         *)
(* Node runs one callback at a time, so one action is the code that runs   *)
(* between two suspension points (await of readFile, fetch, writeFile, or  *)
(* a pacing sleep).  The upstream ledger, the clock, the file system and   *)
(* process crashes are the environment.                                    *)
(*                                                                         *)
(* Amounts are kept in lamports: the code stores totalSOL as               *)
(* lamports / 1e9 in a double; the model holds the numerator.              *)
(* Signatures are numbered 1, 2, ... in ledger order (1 is the oldest).    *)
(* Timestamps are day numbers.                                             *)
(***************************************************************************)
EXTENDS Integers, Sequences, FiniteSets, TLC

\* ---- bounds of the model ------------------------------------------------
MaxChain == 2      \* transactions the upstream ledger may hold
MaxDay == 1        \* calendar days 0..MaxDay
NSlots == 2        \* activations of smartAnalysis that can be told apart
MaxHist == 5       \* transactions the ledger of a full-history scan may hold
MaxTx == 2         \* transactions handed to the extractors in a row
MaxBacklog == 3    \* transactions the ledger holds before the first scan of a backlog

\* ---- program constants --------------------------------------------------
DAILY_LIMIT == 2   \* 50000 in the source, scaled down
maxRetries == 3    \* default of fetchWithRetry
PageLimit == 2     \* limit: 1000 in the source, scaled down
FullScanDays == 7  \* one week between full scans
NoSig == 0         \* lastProcessedSignature: null
NoTime == -1       \* lastFullScan / lastIncrementalScan: null
NoTotal == -1      \* state.totalSOL: null
MAX_PAGES == 2     \* comprehensive tracker: 1000 in the source, scaled down
batchSize == 2     \* comprehensive tracker, phase 2: 10 in the source
PAGE_LIMIT == 2    \* gross tracker: 1000 in the source, scaled down
GROSS_MAX_PAGES == 2   \* gross tracker, MAX_PAGES: 50000 in the source
SIG_CAP == 3       \* getAllSignatures bails out past 1_000_000 records
CONCURRENCY == 2   \* sumInboundForSignatures: 6 in the source

Slots == 1..NSlots
Sigs == 1..(IF MaxBacklog > MaxChain THEN MaxBacklog ELSE MaxChain)

\* One upstream transaction: the balance change of the tracked wallet
\* (postBalances - preBalances at its index) and whether it failed on chain
\* (err of the signature record, meta.err of the transaction).
TxKinds ==
    {[delta |-> 2, err |-> FALSE], [delta |-> -1, err |-> FALSE],
     [delta |-> 2, err |-> TRUE]}

\* What one HTTP attempt can come back with.
Outcomes == {"ok", "ok_rpc_error", "rate_limited", "http_error", "network_error"}

VARIABLES
    chain,          \* upstream ledger, oldest first
    today,          \* the calendar day, new Date().toDateString()
    disk,           \* sol_data.json: [exists, data]
    running,        \* state.running
    stTotal,        \* state.totalSOL
    stCount,        \* state.transactionCount
    apiCallsToday,  \* module variable apiCallsToday
    lastApiReset,   \* module variable lastApiReset
    boot,           \* "loading" while initialize() awaits loadData, then "up"
    scan,           \* the activations of smartAnalysis
    turnedAway,     \* history: how the scan in progress last saw a trigger turned away
    recovering,     \* history: the process crashed between a scan's load and save
    program,        \* which server.js this behaviour runs
    comp,           \* the comprehensive tracker: state and the locals of its run
    gross,          \* the gross-inbound tracker: state and the locals of its run
    v0,             \* the lifetime counter: CACHE and the locals of refreshNow
    ext             \* the extractors applied to one transaction after another

smartVars == <<chain, today, disk, running, stTotal, stCount, apiCallsToday,
               lastApiReset, boot, scan, turnedAway, recovering>>

vars == <<smartVars, program, comp, gross, v0, ext>>

\* What an action of the smart tracker leaves alone.
others == <<program, comp, gross, v0, ext>>

ZeroCount == [k \in Sigs |-> 0]

\* The record loadData returns when the file cannot be read.  The field
\* counted is history: how often each signature was added into totalSOL.
FreshData(day) ==
    [totalSOL |-> 0, transactionCount |-> 0, lastProcessedSignature |-> NoSig,
     lastFullScan |-> NoTime, lastIncrementalScan |-> NoTime,
     apiCallsToday |-> 0, lastApiReset |-> day, counted |-> ZeroCount]

NoFile == [exists |-> FALSE, data |-> FreshData(0)]

\* loadData: the parsed file, or the fresh record on any read or parse error.
loadData(readOk) ==
    IF disk.exists /\ readOk THEN disk.data ELSE FreshData(today)

\* saveData: whole-record replace; a failed write is logged and swallowed.
saveData(data, writeOk) ==
    IF writeOk THEN [exists |-> TRUE, data |-> data] ELSE disk

IdleScan ==
    [pc |-> "idle", forceFullScan |-> FALSE, recovery |-> FALSE,
     persistedData |-> FreshData(0), now |-> 0,
     call |-> "none", attempt |-> 0,
     signatures |-> <<>>, i |-> 0,
     tracked |-> 0,           \* history: trackApiCall calls of the call under way
     warned |-> 0,            \* 'Transaction processing error' lines logged by the run
     txFailed |-> FALSE,      \* history: a getTransaction call of the run failed
     since |-> NoSig,         \* history: the cursor the run loaded
     newReceived |-> 0, newTransactionCount |-> 0, newCounted |-> ZeroCount,
     updatedData |-> FreshData(0),
     \* history of the run, for the properties:
     observed |-> NoSig,      \* newest signature the listing returned
     listFailed |-> FALSE,    \* the listing got a non-OK response or threw
     quotaHit |-> FALSE,      \* a call ended with API_LIMIT_REACHED
     nothingNew |-> FALSE]    \* upstream held nothing newer than the saved cursor

\* The smart tracker before initialize() has run.
SmartIdle ==
    /\ today = 0
    /\ disk = NoFile
    /\ running = FALSE
    /\ stTotal = NoTotal
    /\ stCount = 0
    /\ apiCallsToday = 0
    /\ lastApiReset = 0
    /\ boot = "loading"
    /\ scan = [s \in Slots |-> IdleScan]
    /\ turnedAway = "none"
    /\ recovering = FALSE

\* ---- API call tracking --------------------------------------------------
\* The counter as canMakeApiCall and trackApiCall see it: both reset it first
\* when the date has changed.
RolledCalls == IF today # lastApiReset THEN 0 ELSE apiCallsToday

canMakeApiCall_offByOne(calls) == calls <= DAILY_LIMIT

canMakeApiCall_slack(calls) == calls < DAILY_LIMIT + 1

canMakeApiCall(calls) == calls < DAILY_LIMIT

\* ---- upstream -----------------------------------------------------------
Min(a, b) == IF a < b THEN a ELSE b

\* getSignaturesForAddress with limit and, when a checkpoint exists, until:
\* the signatures strictly newer than until, newest first, at most the limit.
ListSignatures(until) ==
    LET n == Len(chain)
        cnt == Min(PageLimit, n - until)
    IN  [k \in 1..cnt |-> n - k + 1]

\* ---- incrementalScan ----------------------------------------------------
ZeroResult ==
    [newReceived |-> 0, newTransactionCount |-> 0, newSignature |-> NoSig,
     newCounted |-> ZeroCount]

newSignature_oldest(signatures) ==
    IF Len(signatures) > 0 THEN signatures[Len(signatures)] ELSE NoSig

\* newSignature: signatures.length > 0 ? signatures[0].signature : null
newSignature(signatures) ==
    IF Len(signatures) > 0 THEN signatures[1] ELSE NoSig

ScanResult(sc) ==
    [newReceived |-> sc.newReceived,
     newTransactionCount |-> sc.newTransactionCount,
     newSignature |-> newSignature(sc.signatures),
     newCounted |-> sc.newCounted]

UpdatedData_keepCursor(pd, r, now, calls, reset) ==
    [pd EXCEPT
       !.totalSOL = pd.totalSOL + r.newReceived,
       !.transactionCount = pd.transactionCount + r.newTransactionCount,
       !.lastIncrementalScan = now,
       !.apiCallsToday = calls,
       !.lastApiReset = reset,
       !.counted = [k \in Sigs |-> pd.counted[k] + r.newCounted[k]]]

\* smartAnalysis, "Update totals": the record handed to saveData.
UpdatedData(pd, r, now, calls, reset) ==
    [pd EXCEPT
       !.totalSOL = pd.totalSOL + r.newReceived,
       !.transactionCount = pd.transactionCount + r.newTransactionCount,
       !.lastProcessedSignature =
           IF r.newSignature # NoSig THEN r.newSignature
           ELSE pd.lastProcessedSignature,
       !.lastIncrementalScan = now,
       !.apiCallsToday = calls,
       !.lastApiReset = reset,
       !.counted = [k \in Sigs |-> pd.counted[k] + r.newCounted[k]]]

\* incrementalScan has returned r: smartAnalysis builds updatedData and
\* awaits saveData.
ToSave(sc, r, calls, reset) ==
    [IdleScan EXCEPT
       !.pc = "save",
       !.updatedData = UpdatedData(sc.persistedData, r, sc.now, calls, reset),
       !.recovery = sc.recovery, !.observed = sc.observed,
       !.listFailed = sc.listFailed, !.quotaHit = sc.quotaHit,
       !.nothingNew = sc.nothingNew, !.txFailed = sc.txFailed, !.since = sc.since]

\* The per-signature handling is over (a result, a skip, or the inner catch):
\* on to the next signature.
NextSig(sc) ==
    [sc EXCEPT !.pc = "next", !.i = sc.i + 1, !.attempt = 0, !.tracked = 0]

\* The listing call is over with result res; calls, reset: the API counters.
DeliverList(sc, res, calls, reset) ==
    LET sigs == ListSignatures(sc.persistedData.lastProcessedSignature)
        seen == [sc EXCEPT !.nothingNew = (Len(chain) = disk.data.lastProcessedSignature),
                           !.listFailed = (res \in {"http_error", "thrown"}),
                           !.quotaHit = (res = "API_LIMIT_REACHED")]
    IN  IF res = "ok" /\ Len(sigs) > 0
        THEN [seen EXCEPT !.pc = "next", !.signatures = sigs, !.i = 1,
                          !.observed = sigs[1]]
        ELSE ToSave(seen, ZeroResult, calls, reset)

\* The getTransaction call for signatures[i] is over with result res.
DeliverTx(sc, res) ==
    LET sig == sc.signatures[sc.i]
        tx == chain[sig]
        balanceChange == tx.delta
        done == [sc EXCEPT !.quotaHit = sc.quotaHit \/ res = "API_LIMIT_REACHED",
                           !.txFailed = sc.txFailed \/ res # "ok",
                           \* the inner catch logs; a non-OK response or an
                           \* error body is passed over without a line
                           !.warned = @ + (IF res \in {"undefined", "thrown", "API_LIMIT_REACHED"}
                                           THEN 1 ELSE 0)]
    IN  IF res = "ok" /\ ~tx.err /\ balanceChange > 0
        THEN NextSig([done EXCEPT
                 !.newReceived = sc.newReceived + balanceChange,
                 !.newTransactionCount = sc.newTransactionCount + 1,
                 !.newCounted = [sc.newCounted EXCEPT ![sig] = @ + 1]])
        ELSE NextSig(done)

Deliver(sc, res, calls, reset) ==
    IF sc.call = "list" THEN DeliverList(sc, res, calls, reset)
    ELSE DeliverTx(sc, res)


\* ---- smartAnalysis ------------------------------------------------------
AlreadyRunning_never == FALSE

\* smartAnalysis: if (state.running) { ...skipping...; return; }
AlreadyRunning == running

RefreshConflict_never == FALSE

\* POST /api/refresh: if (state.running) return res.status(429)...
RefreshConflict == running

FreeSlot == CHOOSE s \in Slots : scan[s].pc = "idle" /\ \A t \in Slots : t < s => scan[t].pc # "idle"

\* A call of smartAnalysis(forceFullScan) up to its first await: the guard,
\* then running = true and the await of loadData.
CallSmartAnalysis(force) ==
    IF AlreadyRunning
    THEN /\ turnedAway' = "skipped"
         /\ UNCHANGED <<running, scan, recovering>>
    ELSE /\ \E s \in Slots : scan[s].pc = "idle"
         /\ running' = TRUE
         /\ scan' = [scan EXCEPT ![FreeSlot] =
                       [IdleScan EXCEPT !.pc = "load", !.forceFullScan = force,
                                        !.recovery = recovering]]
         /\ recovering' = FALSE
         /\ turnedAway' = "none"

\* initialize(): loadData has returned; publish the loaded totals, run the
\* start-up analysis and start the scheduler.
Initialize(readOk) ==
    /\ boot = "loading"
    /\ boot' = "up"
    /\ stTotal' = loadData(readOk).totalSOL
    /\ stCount' = loadData(readOk).transactionCount
    /\ CallSmartAnalysis(FALSE)
    /\ UNCHANGED <<chain, today, disk, apiCallsToday, lastApiReset>>
    /\ UNCHANGED others

\* scheduleFrequent: the timer fires and calls smartAnalysis(false).
Timer ==
    /\ boot = "up"
    /\ CallSmartAnalysis(FALSE)
    /\ UNCHANGED <<chain, today, disk, stTotal, stCount, apiCallsToday,
                   lastApiReset, boot>>
    /\ UNCHANGED others

\* POST /api/refresh
Refresh(full) ==
    /\ IF RefreshConflict
       THEN /\ turnedAway' = "conflict"
            /\ UNCHANGED <<running, scan, recovering>>
       ELSE CallSmartAnalysis(full)
    /\ UNCHANGED <<chain, today, disk, stTotal, stCount, apiCallsToday,
                   lastApiReset, boot>>
    /\ UNCHANGED others

StampFullScan_resetsTotals(pd, now) ==
    [pd EXCEPT !.lastFullScan = now, !.totalSOL = 0, !.transactionCount = 0]

\* smartAnalysis, the full-scan branch: fullScan() is commented out and only
\* the timestamp is set.
StampFullScan(pd, now) == [pd EXCEPT !.lastFullScan = now]

\* smartAnalysis after loadData: decide the scan type, stamp lastFullScan,
\* enter incrementalScan up to its fetchWithRetry call.
LoadStep(s, readOk) ==
    LET sc == scan[s]
        pd == loadData(readOk)
        now == today
        full == \/ sc.forceFullScan
                \/ pd.lastFullScan = NoTime
                \/ now - pd.lastFullScan >= FullScanDays
        pd2 == IF full THEN StampFullScan(pd, now) ELSE pd
    IN  /\ sc.pc = "load"
        /\ scan' = [scan EXCEPT ![s] =
                      [sc EXCEPT !.pc = "attempt", !.persistedData = pd2,
                                 !.now = now, !.call = "list", !.attempt = 0,
                                 !.since = pd.lastProcessedSignature]]
        /\ UNCHANGED <<chain, today, disk, running, stTotal, stCount,
                       apiCallsToday, lastApiReset, boot, turnedAway, recovering>>
        /\ UNCHANGED others

\* fetchWithRetry, one iteration of its loop: the budget check; then the
\* counter increment, the request and its outcome: a response is returned,
\* 429 sleeps and continues, a thrown fetch is retried until the last attempt.
\* (Nothing the iteration reads can change between the request and its
\* outcome, so the two are one step.)
Attempt(s, outcome) ==
    LET sc == scan[s]
        calls == RolledCalls
        retry == [sc EXCEPT !.attempt = sc.attempt + 1, !.tracked = @ + 1]
    IN  /\ sc.pc = "attempt"
        /\ lastApiReset' = today
        /\ IF ~canMakeApiCall(calls)
           THEN /\ apiCallsToday' = calls
                /\ scan' = [scan EXCEPT ![s] =
                              Deliver(sc, "API_LIMIT_REACHED", calls, today)]
           ELSE /\ apiCallsToday' = calls + 1
                /\ scan' = [scan EXCEPT ![s] =
                     CASE outcome = "rate_limited" ->
                            IF sc.attempt + 1 < maxRetries THEN retry
                            ELSE Deliver(sc, "undefined", calls + 1, today)
                       [] outcome = "network_error" ->
                            IF sc.attempt = maxRetries - 1
                            THEN Deliver(sc, "thrown", calls + 1, today)
                            ELSE retry
                       [] OTHER -> Deliver(sc, outcome, calls + 1, today)]
        /\ UNCHANGED <<chain, today, disk, running, stTotal, stCount, boot,
                       turnedAway, recovering>>
        /\ UNCHANGED others

\* incrementalScan, the head of the loop over the signatures: past the end the
\* scan returns; a signature with err set is skipped; else its transaction is
\* requested.
NextSignature(s) ==
    LET sc == scan[s]
    IN  /\ sc.pc = "next"
        /\ scan' = [scan EXCEPT ![s] =
             IF sc.i > Len(sc.signatures)
             THEN ToSave(sc, ScanResult(sc), apiCallsToday, lastApiReset)
             ELSE IF chain[sc.signatures[sc.i]].err
             THEN [sc EXCEPT !.i = sc.i + 1]
             ELSE [sc EXCEPT !.pc = "attempt", !.call = "tx", !.attempt = 0,
                             !.tracked = 0]]
        /\ UNCHANGED <<chain, today, disk, running, stTotal, stCount,
                       apiCallsToday, lastApiReset, boot, turnedAway, recovering>>
        /\ UNCHANGED others

\* smartAnalysis after saveData: publish the totals, running = false.
SaveStep(s, writeOk) ==
    LET sc == scan[s]
    IN  /\ sc.pc = "save"
        /\ disk' = saveData(sc.updatedData, writeOk)
        /\ stTotal' = sc.updatedData.totalSOL
        /\ stCount' = sc.updatedData.transactionCount
        /\ running' = FALSE
        /\ scan' = [scan EXCEPT ![s] = IdleScan]
        /\ turnedAway' = "none"
        /\ UNCHANGED <<chain, today, apiCallsToday, lastApiReset, boot, recovering>>
        /\ UNCHANGED others

\* ---- environment --------------------------------------------------------
\* The process dies and is started again: memory is lost, the file stays
\* (a write is taken to be whole or not at all).
Crash ==
    /\ boot' = "loading"
    /\ running' = FALSE
    /\ stTotal' = NoTotal
    /\ stCount' = 0
    /\ apiCallsToday' = 0
    /\ lastApiReset' = today
    /\ scan' = [s \in Slots |-> IdleScan]
    /\ turnedAway' = "none"
    /\ recovering' = (recovering \/
                      \E s \in Slots : scan[s].pc \in {"attempt", "wait", "next", "save"})
    /\ UNCHANGED <<chain, today, disk>>
    /\ UNCHANGED others

DayChange ==
    /\ today < MaxDay
    /\ today' = today + 1
    /\ UNCHANGED <<chain, disk, running, stTotal, stCount, apiCallsToday,
                   lastApiReset, boot, scan, turnedAway, recovering>>
    /\ UNCHANGED others

NewTransaction(tx) ==
    /\ Len(chain) < MaxChain
    /\ chain' = Append(chain, tx)
    /\ UNCHANGED <<today, disk, running, stTotal, stCount, apiCallsToday,
                   lastApiReset, boot, scan, turnedAway, recovering>>
    /\ UNCHANGED others

Next ==
    \/ \E ok \in BOOLEAN : Initialize(ok)
    \/ Timer
    \/ \E full \in BOOLEAN : Refresh(full)
    \/ \E s \in Slots, ok \in BOOLEAN : LoadStep(s, ok)
    \/ \E s \in Slots, o \in Outcomes : Attempt(s, o)
    \/ \E s \in Slots : NextSignature(s)
    \/ \E s \in Slots, ok \in BOOLEAN : SaveStep(s, ok)
    \/ Crash
    \/ DayChange
    \/ \E tx \in TxKinds : NewTransaction(tx)


\* ======== the comprehensive tracker (part_000, lines 1-341) ==============
\* What one HTTP attempt of a JSON-RPC call can come back with here: as
\* Outcomes, and a JSON-RPC error body whose code is 429.
CompOutcomes == Outcomes \cup {"ok_rpc_429"}

\* The ledgers a full-history scan is run against.
Histories == UNION {[1..n -> TxKinds] : n \in 0..MaxHist}

\* getSignaturesForAddress with limit and, past the first page, before: the
\* signatures strictly older than before, newest first, at most limit.
PageBefore(before, limit) ==
    LET top == IF before = NoSig THEN Len(chain) ELSE before - 1
        cnt == Min(limit, top)
    IN  [k \in 1..cnt |-> top - k + 1]

\* state and, while a run is on, the locals of comprehensiveSOLAnalysis.
\* outcome, truncated, lastPage and limited are history: what runAnalysis
\* reported for the last run, whether that run left phase 1 at the page cap
\* with more to fetch, the length of the last signature page received, and
\* how many attempts of the signature request under way were answered 429.
CompIdle ==
    [running |-> FALSE, totalSOL |-> NoTotal, outcome |-> "none",
     truncated |-> FALSE, lastPage |-> -1,
     pc |-> "idle",
     allSignatures |-> <<>>, before |-> NoSig, hasMore |-> TRUE, pageCount |-> 0,
     attempt |-> 0, response |-> "none", limited |-> 0,
     i |-> 0, batch |-> <<>>,
     totalReceived |-> 0, transactionCount |-> 0,
     processedCount |-> 0, errorCount |-> 0]

\* fetchWithRetry (lines 23-38), one iteration: 429 sleeps and continues, and
\* the loop falls off its end after the last attempt (the function returns
\* undefined); a thrown fetch is retried until the last attempt; any other
\* response is returned.
fetchWithRetry_comp(attempt, outcome) ==
    CASE outcome = "rate_limited" ->
           IF attempt + 1 < maxRetries THEN "retry" ELSE "undefined"
      [] outcome = "network_error" ->
           IF attempt = maxRetries - 1 THEN "thrown" ELSE "retry"
      [] OTHER -> outcome

\* runAnalysis after comprehensiveSOLAnalysis has returned: publish, log,
\* running = false.
CompFinish(c) ==
    [CompIdle EXCEPT !.totalSOL = c.totalReceived, !.outcome = "completed",
                     !.truncated = (c.hasMore /\ c.pageCount >= MAX_PAGES)]

RECURSIVE SumReceived(_, _)
SumReceived(batch, n) ==
    IF n = 0 THEN 0
    ELSE SumReceived(batch, n - 1)
         + (IF ~batch[n].error /\ batch[n].received > 0 THEN batch[n].received ELSE 0)

\* Phase 2: once every promise of the batch is settled, Promise.all resolves
\* and the results are added up; then the pause between batches.
CompSettle(c) ==
    IF \E j \in DOMAIN c.batch : ~c.batch[j].settled THEN c
    ELSE [c EXCEPT
            !.pc = "p2_sleep", !.batch = <<>>,
            !.processedCount = @ + Len(c.batch),
            !.errorCount = @ + Cardinality({j \in DOMAIN c.batch : c.batch[j].error}),
            !.totalReceived = @ + SumReceived(c.batch, Len(c.batch)),
            !.transactionCount = @ + Cardinality({j \in DOMAIN c.batch :
                                     ~c.batch[j].error /\ c.batch[j].received > 0})]

\* Phase 2: the batch starting at position start; every promise runs up to its
\* first await: a signature with err set is settled at once, the others have
\* their getTransaction call under way.
CompStartBatch(c, start) ==
    LET n == Min(batchSize, Len(c.allSignatures) - start + 1)
        batch == [j \in 1..n |->
                    [sig |-> c.allSignatures[start + j - 1],
                     settled |-> chain[c.allSignatures[start + j - 1]].err,
                     attempt |-> 0, received |-> 0, error |-> FALSE]]
    IN  CompSettle([c EXCEPT !.pc = "p2_batch", !.i = start, !.batch = batch])

CompEnterPhase2(c) ==
    IF Len(c.allSignatures) = 0 THEN CompFinish(c) ELSE CompStartBatch(c, 1)

\* Phase 1, the loop condition: while (hasMore && pageCount < MAX_PAGES).
CompLoop(c) ==
    IF c.hasMore /\ c.pageCount < MAX_PAGES
    THEN [c EXCEPT !.pc = "p1_fetch", !.attempt = 0, !.response = "none",
                   !.limited = 0]
    ELSE CompEnterPhase2([c EXCEPT !.attempt = 0, !.response = "none", !.limited = 0])

\* runAnalysis up to its first await: the guard, running = true, and
\* comprehensiveSOLAnalysis up to the first signature request.
CompCall(c) ==
    IF c.running THEN c
    ELSE CompLoop([CompIdle EXCEPT !.running = TRUE, !.totalSOL = c.totalSOL])

CompFrame == UNCHANGED <<smartVars, program, gross, v0, ext>>

\* The boot-time call of runAnalysis and the daily timer.
CompRun ==
    /\ comp' = CompCall(comp)
    /\ CompFrame

\* POST /api/refresh of the comprehensive tracker.
CompRefresh ==
    /\ comp' = (IF comp.running THEN comp ELSE CompCall(comp))
    /\ CompFrame

\* Phase 1: one attempt of the signature request.
CompAttempt(outcome) ==
    LET r == fetchWithRetry_comp(comp.attempt, outcome)
        c == [comp EXCEPT !.limited = @ + (IF outcome = "rate_limited" THEN 1 ELSE 0)]
    IN  /\ comp.pc = "p1_fetch"
        /\ comp' = IF r = "retry" THEN [c EXCEPT !.attempt = @ + 1]
                   ELSE [c EXCEPT !.pc = "p1_resp", !.response = r]
        /\ CompFrame

\* Phase 1: the body of the loop after fetchWithRetry has returned or thrown.
CompPage ==
    LET c == comp
        r == c.response
        signatures == PageBefore(c.before, PageLimit)
        handled ==
          CASE r \in {"undefined", "thrown"} ->
                 [c EXCEPT !.pageCount = @ + 1]               \* the catch
            [] r \in {"http_error", "ok_rpc_429"} -> c          \* continue
            [] r = "ok" /\ Len(signatures) = 0 ->
                 [c EXCEPT !.hasMore = FALSE, !.lastPage = 0]
            [] r = "ok" /\ Len(signatures) > 0 ->
                 [c EXCEPT !.allSignatures = @ \o signatures,
                           !.before = signatures[Len(signatures)],
                           !.pageCount = @ + 1,
                           !.hasMore = ~(Len(signatures) < PageLimit),
                           !.lastPage = Len(signatures)]
            [] OTHER -> c                                       \* data.error: break
    IN  /\ c.pc = "p1_resp"
        /\ comp' = IF r = "ok_rpc_error"
                   THEN CompEnterPhase2([handled EXCEPT !.attempt = 0,
                                            !.response = "none", !.limited = 0])
                   ELSE CompLoop(handled)
        /\ CompFrame

\* Phase 2: one attempt of the getTransaction call of the j-th promise of the
\* batch, and what the promise returns when the call is over.
CompTxAttempt(j, outcome) ==
    LET c == comp
        p == c.batch[j]
        r == fetchWithRetry_comp(p.attempt, outcome)
        tx == chain[p.sig]
        balanceChange == tx.delta
        q == CASE r = "retry" -> [p EXCEPT !.attempt = @ + 1]
               [] r = "ok" /\ tx.err -> [p EXCEPT !.settled = TRUE]
               [] r = "ok" /\ ~tx.err ->
                    [p EXCEPT !.settled = TRUE,
                              !.received = IF balanceChange > 0 THEN balanceChange ELSE 0]
               [] OTHER -> [p EXCEPT !.settled = TRUE, !.error = TRUE]
    IN  /\ c.pc = "p2_batch"
        /\ j \in DOMAIN c.batch
        /\ ~p.settled
        /\ comp' = CompSettle([c EXCEPT !.batch[j] = q])
        /\ CompFrame

\* Phase 2: the pause after a batch is over: the next batch, or the end.
CompNextBatch ==
    /\ comp.pc = "p2_sleep"
    /\ comp' = IF comp.i + batchSize <= Len(comp.allSignatures)
               THEN CompStartBatch(comp, comp.i + batchSize)
               ELSE CompFinish(comp)
    /\ CompFrame

CompStep ==
    \/ \E o \in CompOutcomes : CompAttempt(o)
    \/ CompPage
    \/ \E j \in 1..batchSize, o \in CompOutcomes : CompTxAttempt(j, o)
    \/ CompNextBatch

NextComp ==
    \/ CompRun
    \/ CompRefresh
    \/ \E o \in CompOutcomes : CompAttempt(o)
    \/ CompPage
    \/ \E j \in 1..batchSize, o \in CompOutcomes : CompTxAttempt(j, o)
    \/ CompNextBatch


\* ======== the gross-inbound tracker (server.js, lines 1-103) =============
\* What one request to the enhanced transaction API can come back with: a
\* page of transactions, a body that is no array, 429, another HTTP error, or
\* a fetch that throws.
GrossOutcomes == {"ok", "ok_not_array", "rate_limited", "http_error", "network_error"}

\* The lamports the nativeTransfers of one transaction send to the wallet.
nativeTransfersIn(tx) == IF tx.delta > 0 THEN tx.delta ELSE 0

RECURSIVE SumNative(_, _)
SumNative(txs, n) ==
    IF n = 0 THEN 0
    ELSE SumNative(txs, n - 1) + nativeTransfersIn(chain[txs[n]])

\* state and, while a run is on, the locals of sumGrossInboundSOL; outcome,
\* truncated and lastPage are history as in CompIdle.
GrossIdle ==
    [running |-> FALSE, totalSOL |-> NoTotal, outcome |-> "none",
     truncated |-> FALSE, lastPage |-> -1,
     pc |-> "idle", totalLamports |-> 0, before |-> NoSig, pages |-> 0]

GrossFailed_noFinally(g) ==
    [GrossIdle EXCEPT !.running = TRUE, !.totalSOL = g.totalSOL, !.outcome = "failed"]

\* runAnalysis, catch and finally: sumGrossInboundSOL has thrown.
GrossFailed(g) ==
    [GrossIdle EXCEPT !.totalSOL = g.totalSOL, !.outcome = "failed"]

\* runAnalysis after sumGrossInboundSOL has returned: publish, running = false.
GrossDone(g, capped) ==
    [GrossIdle EXCEPT !.totalSOL = g.totalLamports, !.outcome = "completed",
                      !.truncated = capped]

GrossFrame == UNCHANGED <<smartVars, program, comp, v0, ext>>

\* runAnalysis (the call on boot and the scheduled ones) up to the first
\* fetch: the guard, running = true, the first page request.
GrossRun ==
    /\ gross' = IF gross.running THEN gross
                ELSE [GrossIdle EXCEPT !.running = TRUE, !.totalSOL = gross.totalSOL,
                                       !.pc = "fetch"]
    /\ GrossFrame

\* sumGrossInboundSOL, one iteration of the loop after fetch has answered.
GrossFetch(outcome) ==
    LET g == gross
        txs == PageBefore(g.before, PAGE_LIMIT)
        added == [g EXCEPT !.totalLamports = @ + SumNative(txs, Len(txs)),
                           !.pages = @ + 1,
                           !.before = txs[Len(txs)],
                           !.lastPage = Len(txs)]
    IN  /\ g.pc = "fetch"
        /\ gross' =
             CASE outcome = "rate_limited" -> g                  \* sleep, continue
               [] outcome \in {"http_error", "network_error"} -> GrossFailed(g)
               [] outcome = "ok_not_array" -> GrossDone(g, FALSE)
               [] outcome = "ok" /\ Len(txs) = 0 -> GrossDone(g, FALSE)
               [] outcome = "ok" /\ Len(txs) > 0 ->
                    IF Len(txs) < PAGE_LIMIT THEN GrossDone(added, FALSE)
                    ELSE IF added.pages < GROSS_MAX_PAGES THEN added
                    ELSE GrossDone(added, TRUE)
        /\ GrossFrame

NextGross ==
    \/ GrossRun
    \/ \E o \in GrossOutcomes : GrossFetch(o)


\* ======== the lifetime counter (server.js, lines 105-274) ================
\* CACHE and, while refreshNow is on, the locals of getAllSignatures and
\* sumInboundForSignatures.  worker[w] is the signature whose getTransaction
\* call worker w awaits, or NoSig once the worker has left its loop.  outcome
\* and lastBatch are history: how the last refreshNow ended, and the length of
\* the last signature page received; sigs, taken and answer are history too:
\* the input of sumInboundForSignatures, how often queue.shift() handed each
\* signature to a worker, and how its getTransaction call ended.
V0Idle ==
    [pc |-> "idle", totalSOL |-> 0, scanned |-> 0, outcome |-> "none",
     lastBatch |-> -1,
     all |-> <<>>, before |-> NoSig,
     queue |-> <<>>, worker |-> [w \in 1..CONCURRENCY |-> NoSig],
     totalIn |-> 0, processed |-> 0,
     sigs |-> <<>>,
     taken |-> [k \in 1..MaxHist |-> 0],
     answer |-> [k \in 1..MaxHist |-> "none"]]

\* inboundLamportsForWallet over the balance change of the wallet.
inboundLamports(tx) == IF tx.err THEN 0 ELSE IF tx.delta > 0 THEN tx.delta ELSE 0

\* refreshNow after Promise.all(workers): the new CACHE.
V0Done(v) ==
    [V0Idle EXCEPT !.totalSOL = v.totalIn, !.scanned = v.processed,
                   !.outcome = "completed",
                   !.sigs = v.sigs, !.taken = v.taken, !.answer = v.answer]

\* rpc has thrown inside getAllSignatures: refreshNow is over, CACHE stays.
V0Failed(v) ==
    [V0Idle EXCEPT !.totalSOL = v.totalSOL, !.scanned = v.scanned,
                   !.outcome = "failed"]

\* Worker w at the head of its loop: while (queue.length) item = queue.shift().
V0Take(v, w) ==
    IF Len(v.queue) > 0
    THEN [v EXCEPT !.worker[w] = Head(v.queue), !.queue = Tail(v.queue),
                   !.taken[Head(v.queue)] = @ + 1]
    ELSE [v EXCEPT !.worker[w] = NoSig]

V0TakeAll_sameItem(v, w) ==
    IF Len(v.queue) > 0
    THEN [v EXCEPT !.worker = [x \in 1..CONCURRENCY |-> Head(v.queue)],
                   !.queue = Tail(v.queue),
                   !.taken[Head(v.queue)] = @ + CONCURRENCY]
    ELSE v

\* Array.from({ length: CONCURRENCY }, async () => ...): worker after worker
\* runs to its first await.
RECURSIVE V0TakeAll(_, _)
V0TakeAll(v, w) ==
    IF w > CONCURRENCY THEN v ELSE V0TakeAll(V0Take(v, w), w + 1)

V0Join(v) ==
    IF \A w \in 1..CONCURRENCY : v.worker[w] = NoSig THEN V0Done(v) ELSE v

\* sumInboundForSignatures up to the await of Promise.all: the workers are
\* created one after the other, each running up to its first rpc call.
V0StartWorkers(v) ==
    V0Join(V0TakeAll([v EXCEPT !.pc = "txs", !.queue = v.all, !.sigs = v.all], 1))

V0Frame == UNCHANGED <<smartVars, program, comp, gross, ext>>

\* refreshNow is called (its callers are not part of the source kept).
V0Refresh ==
    /\ v0.pc = "idle"
    /\ v0' = [V0Idle EXCEPT !.totalSOL = v0.totalSOL, !.scanned = v0.scanned,
                            !.pc = "sigs"]
    /\ V0Frame

\* getAllSignatures, one iteration of the loop after rpc has answered.
V0Page(outcome) ==
    LET v == v0
        batch == PageBefore(v.before, PageLimit)
        pushed == [v EXCEPT !.all = @ \o batch,
                            !.before = batch[Len(batch)],
                            !.lastBatch = Len(batch)]
    IN  /\ v.pc = "sigs"
        /\ v0' = IF outcome # "ok" THEN V0Failed(v)
                 ELSE IF Len(batch) = 0 THEN V0StartWorkers([v EXCEPT !.lastBatch = 0])
                 ELSE IF Len(pushed.all) > SIG_CAP THEN V0StartWorkers(pushed)
                 ELSE pushed
        /\ V0Frame

\* sumInboundForSignatures: the rpc call of worker w is over; the worker adds
\* the result (a thrown call adds nothing), counts it and takes the next item
\* (the breather after every 200th item only delays the worker).
V0Tx(w, outcome) ==
    LET v == v0
        tx == chain[v.worker[w]]
        summed == [v EXCEPT !.totalIn = @ + (IF outcome = "ok" THEN inboundLamports(tx) ELSE 0),
                            !.processed = @ + 1,
                            !.answer[v.worker[w]] =
                                IF outcome = "ok" THEN "ok" ELSE "failed"]
    IN  /\ v.pc = "txs"
        /\ v.worker[w] # NoSig
        /\ v0' = V0Join(V0Take(summed, w))
        /\ V0Frame

NextV0 ==
    \/ V0Refresh
    \/ \E o \in Outcomes : V0Page(o)
    \/ \E w \in 1..CONCURRENCY, o \in Outcomes : V0Tx(w, o)


\* ======== the extractors =================================================
\* The per-transaction computation of the three scan loops, over the parts of
\* a getTransaction result they read.  Accounts are "W" (the tracked wallet)
\* and "A" (any other).  Positions count from 1 here and 0 stands for "not
\* found" (the code counts from 0 and uses -1).
WALLET == "W"

StaticKeys == {<<"A">>, <<"W">>, <<"A", "W">>}
LoadedWritable == {<<>>, <<"W">>, <<"A", "W">>}
LoadedReadonly == {<<>>, <<"A">>}
PreBalance == 10
Deltas == {-2, 0, 3}

\* The transactions handed to the extractors.  The balance of the account at
\* position k changes by d * k, so that every position has a change of its
\* own; the balance arrays cover every account of the transaction, or (cut)
\* all but the last one.
Txs ==
    {[accountKeys |-> x[1], writable |-> x[2], readonly |-> x[3],
      preBalances |->
         [k \in 1..(Len(x[1]) + Len(x[2]) + Len(x[3]) - x[5]) |-> PreBalance],
      postBalances |->
         [k \in 1..(Len(x[1]) + Len(x[2]) + Len(x[3]) - x[5]) |-> PreBalance + x[4] * k],
      err |-> x[6]] :
       x \in StaticKeys \X LoadedWritable \X LoadedReadonly \X Deltas \X {0, 1} \X BOOLEAN}

NoTx ==
    [accountKeys |-> <<>>, writable |-> <<>>, readonly |-> <<>>,
     preBalances |-> <<>>, postBalances |-> <<>>, err |-> FALSE]

\* Array.prototype.findIndex / the for loop with break: the first position
\* of key in keys, 0 when it is not there.
RECURSIVE FirstIndex(_, _, _)
FirstIndex(keys, key, from) ==
    IF from > Len(keys) THEN 0
    ELSE IF keys[from] = key THEN from
    ELSE FirstIndex(keys, key, from + 1)

\* server.js findWalletIndex: over static keys, then loaded writable, then
\* loaded readonly addresses.
findWalletIndex(tx) ==
    FirstIndex(tx.accountKeys \o tx.writable \o tx.readonly, WALLET, 1)

inboundLamportsForWallet_noErrCheck(tx) ==
    LET idx == findWalletIndex(tx)
    IN  IF idx = 0 THEN 0
        ELSE IF idx > Len(tx.preBalances) \/ idx > Len(tx.postBalances) THEN 0
        ELSE IF tx.postBalances[idx] - tx.preBalances[idx] > 0
             THEN tx.postBalances[idx] - tx.preBalances[idx]
        ELSE 0

\* server.js inboundLamportsForWallet
inboundLamportsForWallet(tx) ==
    LET idx == findWalletIndex(tx)
    IN  IF tx.err THEN 0
        ELSE IF idx = 0 THEN 0
        ELSE IF idx > Len(tx.preBalances) \/ idx > Len(tx.postBalances) THEN 0
        ELSE IF tx.postBalances[idx] - tx.preBalances[idx] > 0
             THEN tx.postBalances[idx] - tx.preBalances[idx]
        ELSE 0

\* part_000 (lines 176-182 and 543-549): the loop over
\* transaction.message.accountKeys alone.
walletIndex(tx) == FirstIndex(tx.accountKeys, WALLET, 1)

\* part_000 (lines 184-192 and 551-559)
balanceChangeOf(tx) ==
    LET j == walletIndex(tx)
    IN  IF j # 0 /\ j <= Len(tx.preBalances) /\ j <= Len(tx.postBalances)
        THEN tx.postBalances[j] - tx.preBalances[j]
        ELSE 0

\* part_000: what one fetched transaction adds (lines 164-166 and 194-196,
\* 530-533 and 561-563).
receivedFrom(tx) ==
    IF tx.err THEN 0
    ELSE IF balanceChangeOf(tx) > 0 THEN balanceChangeOf(tx) ELSE 0

\* The sums of the two families of scan loops over the transactions fetched
\* so far, and what the last transaction (tx) gave.
ExtIdle ==
    [n |-> 0, tx |-> NoTx,
     idx |-> 0, lamports |-> 0, totalIn |-> 0,                   \* server.js
     walletIndex |-> 0, balanceChange |-> 0, received |-> 0,     \* part_000
     totalReceived |-> 0, transactionCount |-> 0]

\* One more transaction is fetched and added: totalIn += inbound... in
\* server.js; if (received > 0) { totalReceived += ...; transactionCount++ }
\* in part_000.
ExtFetch(tx) ==
    /\ ext.n < MaxTx
    /\ ext' = [n |-> ext.n + 1, tx |-> tx,
               idx |-> findWalletIndex(tx),
               lamports |-> inboundLamportsForWallet(tx),
               totalIn |-> ext.totalIn + inboundLamportsForWallet(tx),
               walletIndex |-> walletIndex(tx),
               balanceChange |-> IF tx.err THEN 0 ELSE balanceChangeOf(tx),
               received |-> receivedFrom(tx),
               totalReceived |-> ext.totalReceived + receivedFrom(tx),
               transactionCount |-> ext.transactionCount
                                      + (IF receivedFrom(tx) > 0 THEN 1 ELSE 0)]
    /\ UNCHANGED <<smartVars, program, comp, gross, v0>>

\* A new scan starts its sums from zero.
ExtReset ==
    /\ ext.n > 0
    /\ ext' = ExtIdle
    /\ UNCHANGED <<smartVars, program, comp, gross, v0>>

NextExtract ==
    \/ \E tx \in Txs : ExtFetch(tx)
    \/ ExtReset


\* ======== specifications =================================================
AtRest == comp = CompIdle /\ gross = GrossIdle /\ v0 = V0Idle /\ ext = ExtIdle

Init == program = "smart" /\ chain = <<>> /\ SmartIdle /\ AtRest

Spec == Init /\ [][Next]_vars

InitComp == program = "comp" /\ chain \in Histories /\ SmartIdle /\ AtRest

SpecComp == InitComp /\ [][NextComp]_vars

\* A run under way always takes its next step.
SpecCompLive == InitComp /\ [][NextComp]_vars /\ WF_vars(CompStep)

InitGross == program = "gross" /\ chain \in Histories /\ SmartIdle /\ AtRest

SpecGross == InitGross /\ [][NextGross]_vars

InitV0 == program = "v0" /\ chain \in Histories /\ SmartIdle /\ AtRest

SpecV0 == InitV0 /\ [][NextV0]_vars

InitExtract == program = "extract" /\ chain = <<>> /\ SmartIdle /\ AtRest

SpecExtract == InitExtract /\ [][NextExtract]_vars

\* The three trackers that keep state.running: a behaviour of any of them.
InitTrackers == Init \/ InitComp \/ InitGross

NextTrackers ==
    \/ program = "smart" /\ Next
    \/ program = "comp" /\ NextComp
    \/ program = "gross" /\ NextGross

SpecTrackers == InitTrackers /\ [][NextTrackers]_vars

\* The smart tracker started on a wallet that already has a history, with
\* nothing arriving while it runs.
InitBacklog ==
    program = "smart" /\ chain \in [1..MaxBacklog -> TxKinds] /\ SmartIdle /\ AtRest

NextBacklog ==
    \/ \E ok \in BOOLEAN : Initialize(ok)
    \/ Timer
    \/ \E full \in BOOLEAN : Refresh(full)
    \/ \E s \in Slots, ok \in BOOLEAN : LoadStep(s, ok)
    \/ \E s \in Slots, o \in Outcomes : Attempt(s, o)
    \/ \E s \in Slots : NextSignature(s)
    \/ \E s \in Slots, ok \in BOOLEAN : SaveStep(s, ok)
    \/ Crash
    \/ DayChange

SpecBacklog == InitBacklog /\ [][NextBacklog]_vars


\* ---- properties ---------------------------------------------------------
Active == {s \in Slots : scan[s].pc # "idle"}

AnyTrigger ==
    \/ \E ok \in BOOLEAN : Initialize(ok)
    \/ Timer
    \/ \E full \in BOOLEAN : Refresh(full)

Completes(s) == \E ok \in BOOLEAN : SaveStep(s, ok)

SameCheckpoint(a, b) ==
    /\ a.totalSOL = b.totalSOL
    /\ a.transactionCount = b.transactionCount
    /\ a.lastProcessedSignature = b.lastProcessedSignature

\* C1: whatever the interleaving of the boot-time run, the timer and refresh
\* requests, at most one activation of smartAnalysis is past its guard, and
\* state.running is true exactly while one is.
C1_SingleFlight ==
    /\ Cardinality(Active) <= 1
    /\ running <=> Active # {}

\* C1: a trigger reached smartAnalysis while a scan was running and returned
\* at the guard.
C1_Witness == turnedAway = "skipped" /\ Cardinality(Active) = 1

\* C2: a refresh request handled while running = true is answered with the
\* conflict reply and changes nothing else (there is no queue to put it in);
\* and an activation of smartAnalysis only ever starts in the step of a
\* trigger that found running = false.
C2_RefreshRejectedNotQueued ==
    [][ /\ \A full \in BOOLEAN :
             (Refresh(full) /\ running) =>
                /\ turnedAway' = "conflict"
                /\ UNCHANGED <<chain, today, disk, running, stTotal, stCount,
                               apiCallsToday, lastApiReset, boot, scan, recovering>>
        /\ (\E s \in Slots : scan[s].pc = "idle" /\ scan'[s].pc # "idle") =>
                ~running /\ AnyTrigger ]_vars

\* C2: a refresh request was turned away by the scan still running.
C2_Witness == turnedAway = "conflict" /\ running /\ Active # {}

\* C3 (as claimed): a run whose transaction fetches hit the daily budget
\* leaves the saved total, count and cursor as they were.
C3_QuotaAbortsWithoutSave ==
    [][ \A s \in Slots :
          (Completes(s) /\ scan[s].quotaHit /\ scan[s].observed # NoSig) =>
             SameCheckpoint(disk'.data, disk.data) ]_vars

\* C4: an iteration of fetchWithRetry that finds the day's counter at the
\* limit issues no request (the counter, incremented right before each fetch,
\* stays), ends the call with API_LIMIT_REACHED and does not try again.
C4_QuotaFailsFast ==
    [][ \A s \in Slots :
          (/\ scan[s].pc = "attempt"
           /\ RolledCalls >= DAILY_LIMIT
           /\ \E o \in Outcomes : Attempt(s, o)) =>
             /\ apiCallsToday' = RolledCalls
             /\ scan'[s].quotaHit
             /\ scan'[s].pc # "attempt" ]_vars

\* C4: a call has just failed on the exhausted budget.
C4_Witness ==
    \E s \in Slots : scan[s].quotaHit /\ RolledCalls >= DAILY_LIMIT

\* C5 (as claimed): a run whose listing call failed writes nothing: the file
\* is what it was.
C5_ListFailureNoSave ==
    [][ \A s \in Slots :
          (Completes(s) /\ scan[s].listFailed) => disk' = disk ]_vars

RECURSIVE SumCounted(_, _)
SumCounted(counted, k) ==
    IF k = 0 THEN 0
    ELSE SumCounted(counted, k - 1)
         + (IF counted[k] = 0 THEN 0 ELSE counted[k] * chain[k].delta)

C7_CursorIsNewestObserved ==
    [][ \A s \in Slots :
          Completes(s) =>
             disk'.data.lastProcessedSignature =
                IF scan[s].observed # NoSig THEN scan[s].observed
                ELSE disk.data.lastProcessedSignature ]_vars

\* C8 (as claimed): a scan run when upstream holds nothing newer than the
\* saved cursor leaves the saved total and cursor as they were.
C8_IdempotentScan ==
    [][ \A s \in Slots :
          (Completes(s) /\ scan[s].nothingNew) =>
             /\ disk'.data.totalSOL = disk.data.totalSOL
             /\ disk'.data.lastProcessedSignature = disk.data.lastProcessedSignature ]_vars

\* C9 (as claimed): the saved total never decreases.
C9_TotalMonotone ==
    [][ disk'.data.totalSOL >= disk.data.totalSOL ]_vars

\* C10 (as claimed): the first run after a crash between a scan's load and
\* save works from the last saved record and lists nothing at or before its
\* cursor.
C10_ResumeFromCheckpoint ==
    \A s \in Slots :
       (scan[s].recovery /\ scan[s].pc \in {"attempt", "next"} /\ disk.exists) =>
          /\ SameCheckpoint(scan[s].persistedData, disk.data)
          /\ \A j \in 1..Len(scan[s].signatures) :
                scan[s].signatures[j] > disk.data.lastProcessedSignature

\* C11 (as claimed): a run that left the signature pagination at the page cap
\* with more history to fetch is reported as TruncatedHistory; and a run whose
\* last page was short or empty did not stop at the cap.
C11_CapReportsTruncated ==
    /\ comp.truncated => comp.outcome = "TruncatedHistory"
    /\ (comp.pc \in {"p2_batch", "p2_sleep"} /\ comp.lastPage \in 0..(PageLimit - 1)) =>
          ~(comp.hasMore /\ comp.pageCount >= MAX_PAGES)

\* C12 (as claimed): every run of the comprehensive analysis that has set
\* running comes back to running = false, also when the upstream answers with
\* server errors and transport failures: a run under way ends unless it meets
\* a rate-limit answer.
C12_ScanReturnsToIdle ==
    comp.running ~>
       (~comp.running \/ comp.limited > 0 \/ comp.response = "ok_rpc_429")

\* C13: in each of the three trackers state.running is true exactly while a
\* run is past the guard and not yet through its finally block: after a run
\* has ended, by return or by a thrown error, it is false.
C13_RunningWhileExecuting ==
    /\ running <=> (\E s \in Slots : scan[s].pc # "idle")
    /\ comp.running <=> comp.pc # "idle"
    /\ gross.running <=> gross.pc # "idle"

\* C13: a run of the gross tracker has ended by a thrown error and running is
\* false again.
C13_Witness == gross.outcome = "failed" /\ gross.pc = "idle" /\ ~gross.running

\* C14 (as claimed): while the saved record is of today, the counter the
\* budget check reads is at least the saved apiCallsToday, also after the
\* process was started again.
C14_BudgetSurvivesRestart ==
    (disk.exists /\ disk.data.lastApiReset = today) =>
        RolledCalls >= disk.data.apiCallsToday

OnlyWritable(tx) ==
    /\ \A k \in DOMAIN tx.accountKeys : tx.accountKeys[k] # WALLET
    /\ \E k \in DOMAIN tx.writable : tx.writable[k] = WALLET

\* The place of the wallet in the account list the balance arrays follow
\* (static keys, then loaded writable, then loaded readonly), 0 if absent or
\* not covered by the balance arrays.
TrackedIndex(tx) ==
    LET k == FirstIndex(tx.accountKeys \o tx.writable \o tx.readonly, WALLET, 1)
    IN  IF k <= Len(tx.preBalances) /\ k <= Len(tx.postBalances) THEN k ELSE 0

TrackedDelta(tx) ==
    IF TrackedIndex(tx) = 0 THEN 0
    ELSE tx.postBalances[TrackedIndex(tx)] - tx.preBalances[TrackedIndex(tx)]

Positive(d) == IF d > 0 THEN d ELSE 0

\* C15 (as claimed): for a transaction that names the wallet only in
\* loadedAddresses.writable, each extractor uses the index (number of static
\* keys + position in the writable list) and takes postBalances minus
\* preBalances there.
C15_LoadedAddressIndex ==
    (ext.n > 0 /\ OnlyWritable(ext.tx) /\ ~ext.tx.err /\ TrackedIndex(ext.tx) # 0) =>
        LET k == Len(ext.tx.accountKeys) + FirstIndex(ext.tx.writable, WALLET, 1)
            d == ext.tx.postBalances[k] - ext.tx.preBalances[k]
        IN  /\ ext.idx = k /\ ext.lamports = Positive(d)
            /\ ext.walletIndex = k /\ ext.balanceChange = d

\* C16 (as claimed): every fetched transaction that did not fail adds its
\* balance change at the tracked index to the total when that change is
\* strictly positive, and nothing otherwise; so the total is the sum of the
\* strictly positive changes.
C16_Additivity ==
    [][ (ext'.n = ext.n + 1 /\ ~ext'.tx.err) =>
           /\ ext'.totalIn = ext.totalIn + Positive(TrackedDelta(ext'.tx))
           /\ ext'.totalReceived = ext.totalReceived + Positive(TrackedDelta(ext'.tx)) ]_vars

\* C17: a fetched transaction whose meta.err is set leaves the totals and the
\* transfer count as they were, whatever its balances are.
C17_FailedAddsNothing ==
    [][ (ext'.n = ext.n + 1 /\ ext'.tx.err) =>
           /\ ext'.totalIn = ext.totalIn
           /\ ext'.totalReceived = ext.totalReceived
           /\ ext'.transactionCount = ext.transactionCount ]_vars

\* C17: the last transaction fetched had failed although the balance of the
\* wallet, a static key, is higher after than before; an earlier transaction
\* had been counted.
C17_Witness ==
    /\ ext.n = 2 /\ ext.tx.err
    /\ walletIndex(ext.tx) # 0 /\ TrackedDelta(ext.tx) > 0
    /\ ext.totalIn > 0 /\ ext.totalReceived > 0

\* C18 (as claimed): getAllSignatures has no page request under way after a
\* page that was empty or shorter than the page size.
C18_NoRequestAfterShortPage ==
    v0.pc = "sigs" => v0.lastBatch \notin 0..(PageLimit - 1)

\* C19 (as claimed): a call whose every attempt was answered 429 has made at
\* most maxRetries attempts and hands RateLimited to its caller.
C19_RateLimitedSurfaces ==
    (comp.pc = "p1_resp" /\ comp.limited = comp.attempt + 1) =>
        /\ comp.attempt + 1 <= maxRetries
        /\ comp.response = "RateLimited"

\* C20 (as claimed): when a call succeeds, apiCallsToday has been incremented
\* once by that call, the attempts before the successful one included.
C20_OneIncrementPerCall ==
    [][ \A s \in Slots :
          (/\ scan[s].pc = "attempt"
           /\ canMakeApiCall(RolledCalls)
           /\ Attempt(s, "ok")) =>
             scan[s].tracked + (apiCallsToday' - RolledCalls) = 1 ]_vars

TxFailures == {"ok_rpc_error", "rate_limited", "http_error", "network_error"}

\* C22: a getTransaction call of the incremental scan that ends in a failure
\* is recorded as one error, adds nothing to the sums of the run, and the run
\* goes on with the next signature.
C22_FailureCountedAndSkipped ==
    [][\A s \in Slots, o \in TxFailures :
          (/\ scan[s].call = "tx"
           /\ canMakeApiCall(RolledCalls)
           /\ Attempt(s, o)
           /\ scan'[s].pc = "next")
          => /\ scan'[s].warned = scan[s].warned + 1
             /\ scan'[s].newReceived = scan[s].newReceived
             /\ scan'[s].newTransactionCount = scan[s].newTransactionCount
             /\ scan'[s].i = scan[s].i + 1]_vars

\* C23: a signature whose err field is set is never handed to getTransaction
\* by the lifetime counter: no worker awaits a call for it and no call for it
\* has been answered.
C23_ErrSignatureNotFetched ==
    /\ \A w \in 1..CONCURRENCY :
          v0.worker[w] # NoSig => ~chain[v0.worker[w]].err
    /\ \A k \in 1..Len(chain) : chain[k].err => v0.answer[k] = "none"

\* What a sequential pass over the input adds up, given how each signature's
\* getTransaction call ended.
RECURSIVE SumAnswered(_, _)
SumAnswered(answer, n) ==
    IF n = 0 THEN 0
    ELSE SumAnswered(answer, n - 1)
         + (IF answer[n] = "ok" THEN inboundLamports(chain[n]) ELSE 0)

Answered(answer) == {k \in 1..MaxHist : answer[k] # "none"}

InputOf(v) == {v.sigs[j] : j \in 1..Len(v.sigs)}

\* C24: whatever the interleaving of the workers, every signature of the
\* input is handed out by queue.shift() at most once while the batch runs
\* and exactly once when it is over; the sum and the processed count are
\* those of one pass over the answered signatures.
C24_WorkersSumOnce ==
    /\ v0.pc = "txs" =>
          /\ \A k \in 1..MaxHist : v0.taken[k] <= 1
          /\ v0.totalIn = SumAnswered(v0.answer, Len(chain))
          /\ v0.processed = Cardinality(Answered(v0.answer))
    /\ (v0.pc = "idle" /\ v0.outcome = "completed") =>
          /\ \A k \in 1..MaxHist : v0.taken[k] = (IF k \in InputOf(v0) THEN 1 ELSE 0)
          /\ Answered(v0.answer) = InputOf(v0)
          /\ v0.totalSOL = SumAnswered(v0.answer, Len(chain))
          /\ v0.scanned = Len(v0.sigs)

\* A batch of more signatures than workers is over; one call failed and
\* others added to the sum.
C24_Witness ==
    /\ v0.pc = "idle"
    /\ v0.outcome = "completed"
    /\ Len(v0.sigs) > CONCURRENCY
    /\ \E k \in 1..MaxHist : v0.answer[k] = "failed"
    /\ v0.totalSOL > 0

\* C25: the step that marks a run as a full scan leaves the total, the
\* transaction count and lastProcessedSignature as loadData returned them;
\* only lastFullScan is set, to the time of the run.
C25_FullScanStampOnly ==
    [][\A s \in Slots :
          (/\ scan[s].pc = "load"
           /\ scan'[s].pc = "attempt"
           /\ \/ scan[s].forceFullScan
              \/ scan'[s].persistedData.lastFullScan = today)
          => \E ok \in BOOLEAN :
                /\ SameCheckpoint(scan'[s].persistedData, loadData(ok))
                /\ scan'[s].persistedData.counted = loadData(ok).counted
                /\ scan'[s].persistedData.lastFullScan = today]_vars

\* A forced full scan has loaded a record with a total and a checkpoint.
C25_Witness ==
    \E s \in Slots :
        /\ scan[s].forceFullScan
        /\ scan[s].pc = "attempt"
        /\ scan[s].call = "list"
        /\ scan[s].persistedData.totalSOL > 0
        /\ scan[s].persistedData.lastProcessedSignature # NoSig
        /\ scan[s].persistedData.lastFullScan = today

\* A transaction the tracker is to count: not failed, balance increased.
Countable(k) == ~chain[k].err /\ chain[k].delta > 0

\* C26: a run in which no call failed and the budget was never refused, and
\* which moves lastProcessedSignature forward, has counted every countable
\* transaction newer than the checkpoint it loaded and not newer than the
\* new one.
C26_NothingSkippedBelowCursor ==
    [][\A s \in Slots :
          (/\ Completes(s)
           /\ ~scan[s].listFailed /\ ~scan[s].quotaHit /\ ~scan[s].txFailed
           /\ scan[s].updatedData.lastProcessedSignature > scan[s].since)
          => \A k \in (scan[s].since + 1)..scan[s].updatedData.lastProcessedSignature :
                Countable(k) => scan[s].updatedData.counted[k] >= 1]_vars

\* C27: when a scan completes, the total and the transaction count it
\* publishes in state are those of the record on disk.
C27_PublishedEqualsPersisted ==
    [][\A s \in Slots :
          Completes(s) => /\ stTotal' = disk'.data.totalSOL
                          /\ stCount' = disk'.data.transactionCount]_vars

====
